---- MODULE Spec2Model ----
(***************************************************************************)
(* State-machine model of the autoscaling controller: the Kubernetes       *)
(* environment (environment/environment.py), the tabular and fuzzy-keyed   *)
(* Q-learning policies (rl/q_learning.py, rl/q_learning_fuzzy.py,          *)
(* rl/fuzzy.py) and the training loop (trainer.py).                        *)
(*                                                                         *)
(* Python floats are modelled as exact rationals <<num, den>> in lowest    *)
(* terms with den > 0; the pair <<0, 0>> is not-a-number.  Python ints are *)
(* TLA+ integers.                                                          *)
(***************************************************************************)
EXTENDS Integers, Sequences, FiniteSets, TLC

VARIABLES env, envPc, call, agent, fs, ret, snap, tr, ops

vars == <<env, envPc, call, agent, fs, ret, snap, tr, ops>>

-----------------------------------------------------------------------------
(* Float arithmetic *)

Abs(x) == IF x < 0 THEN -x ELSE x

RECURSIVE GCD(_, _)
GCD(a, b) == IF b = 0 THEN a ELSE GCD(b, a % b)

NaN == <<0, 0>>

IsNaN(x) == x[2] = 0

\* n/d in lowest terms, d # 0
Rat(n, d) == LET g == GCD(Abs(n), Abs(d))
                 s == IF d < 0 THEN -1 ELSE 1
             IN  <<(s * n) \div g, (s * d) \div g>>

Flt(n) == <<n, 1>>

Zero == Flt(0)

One == Flt(1)

RAdd(a, b) == IF IsNaN(a) \/ IsNaN(b) THEN NaN ELSE Rat(a[1] * b[2] + b[1] * a[2], a[2] * b[2])

RSub(a, b) == IF IsNaN(a) \/ IsNaN(b) THEN NaN ELSE Rat(a[1] * b[2] - b[1] * a[2], a[2] * b[2])

RMul(a, b) == IF IsNaN(a) \/ IsNaN(b) THEN NaN ELSE Rat(a[1] * b[1], a[2] * b[2])

\* a / b for b # 0 (the callers guard b = 0 where the code can divide by zero)
RDiv(a, b) == IF IsNaN(a) \/ IsNaN(b) THEN NaN ELSE Rat(a[1] * b[2], a[2] * b[1])

\* every comparison with not-a-number is false
RLt(a, b) == ~IsNaN(a) /\ ~IsNaN(b) /\ a[1] * b[2] < b[1] * a[2]

RLe(a, b) == ~IsNaN(a) /\ ~IsNaN(b) /\ a[1] * b[2] <= b[1] * a[2]

RGt(a, b) == RLt(b, a)

\* Python's min(a, b): b when b < a, else a; max(a, b): b when b > a, else a
PyMin(a, b) == IF RLt(b, a) THEN b ELSE a

PyMax(a, b) == IF RGt(b, a) THEN b ELSE a

\* int(x): truncation toward zero
Trunc(x) == IF x[1] >= 0 THEN x[1] \div x[2] ELSE -((-x[1]) \div x[2])

Floor(x) == x[1] \div x[2]

\* round(x): to the nearest integer, a tie to the even one
PyRound(x) == LET f == Floor(x)
                  twice == RSub(RMul(Flt(2), x), Flt(2 * f))
              IN  IF RLt(twice, One) THEN f
                  ELSE IF RGt(twice, One) THEN f + 1
                  ELSE IF f % 2 = 0 THEN f ELSE f + 1

-----------------------------------------------------------------------------
(* rl/fuzzy.py: the membership functions the fuzzy-keyed policy labels with *)

\* _trapezoidal(x, a, b, c, d) on integer breakpoints, branch by branch
Trapezoidal(x, a, b, c, d) ==
    IF RLt(x, Flt(a)) \/ RGt(x, Flt(d)) THEN Zero
    ELSE IF RLe(Flt(b), x) /\ RLe(x, Flt(c)) THEN One
    ELSE IF RLt(Flt(a), x) /\ RLt(x, Flt(b))
         THEN (IF b - a # 0 THEN RDiv(RSub(x, Flt(a)), Flt(b - a)) ELSE Zero)
         ELSE (IF d - c # 0 THEN RDiv(RSub(Flt(d), x), Flt(d - c)) ELSE Zero)

\* the labels in the order the membership dictionaries list them
Labels == <<"very_low", "low", "medium", "high", "very_high">>

\* breakpoints <<a, b, c, d>> per label, for cpu_usage and memory_usage
UsageBreaks == << <<0, 0, 10, 25>>, <<15, 25, 35, 45>>, <<40, 50, 60, 70>>, <<65, 75, 85, 90>>, <<85, 95, 100, 100>> >>

\* breakpoints per label for response_time
ResponseBreaks == << <<0, 0, 10, 25>>, <<20, 30, 45, 55>>, <<50, 60, 70, 80>>, <<75, 85, 90, 95>>, <<90, 95, 100, 100>> >>

\* fuzzify, one metric: the degree of every label, in label order
Fuzzify(breaks, x) == [i \in 1..5 |-> Trapezoidal(x, breaks[i][1], breaks[i][2], breaks[i][3], breaks[i][4])]

\* max(d, key=d.get): the first label whose degree no label exceeds
DominantLabel(deg) == Labels[CHOOSE i \in 1..5 : (\A j \in 1..5 : ~RGt(deg[j], deg[i])) /\ (\A j \in 1..(i - 1) : RLt(deg[j], deg[i]))]

\* apply_rules: the strength of each rule group before the division by their
\* sum; cpu, mem and resp are the degrees of one metric in label order
\* (1 very_low, 2 low, 3 medium, 4 high, 5 very_high)
ScaleUpStrength(cpu, mem, resp) ==
    PyMax(PyMax(PyMax(PyMax(PyMax(resp[4], resp[3]),
                            RMul(PyMin(PyMax(cpu[4], mem[4]), PyMax(resp[3], resp[4])), Rat(9, 10))),
                      PyMax(cpu[5], mem[5])),
                RMul(PyMin(PyMin(cpu[3], mem[3]), resp[4]), Rat(17, 20))),
          RMul(RMul(PyMax(cpu[4], mem[4]), resp[3]), Rat(4, 5)))

ScaleDownStrength(cpu, mem, resp) ==
    PyMax(PyMax(PyMax(PyMin(PyMin(cpu[2], mem[2]), resp[2]),
                      RMul(PyMin(PyMin(cpu[2], mem[2]), resp[3]), Rat(9, 10))),
                RMul(PyMax(cpu[1], mem[1]), resp[2])),
          RMul(PyMin(resp[1], PyMax(cpu[3], mem[3])), Rat(4, 5)))

NoChangeStrength(cpu, mem, resp) ==
    PyMax(PyMax(PyMax(PyMax(PyMin(PyMin(cpu[3], mem[3]), resp[3]),
                            RMul(PyMin(cpu[4], resp[2]), Rat(4, 5))),
                      RMul(PyMin(PyMin(cpu[3], mem[3]), resp[2]), Rat(9, 10))),
                RMul(PyMin(PyMin(cpu[2], mem[3]), resp[3]), Rat(17, 20))),
          RMul(PyMin(PyMax(cpu[3], mem[3]), resp[3]), Rat(4, 5)))

\* the 1e-6 added to the sum of the strengths
RULES_EPSILON == Rat(1, 1000000)

\* apply_rules on the fuzzified observation: the three strengths, their sum
\* plus 1e-6, and each strength divided by it
ApplyRules(obs) ==
    LET cpu == Fuzzify(UsageBreaks, obs.cpu_usage)
        mem == Fuzzify(UsageBreaks, obs.memory_usage)
        resp == Fuzzify(ResponseBreaks, obs.response_time)
        up == ScaleUpStrength(cpu, mem, resp)
        down == ScaleDownStrength(cpu, mem, resp)
        stay == NoChangeStrength(cpu, mem, resp)
        total == RAdd(RAdd(RAdd(up, down), stay), RULES_EPSILON)
    IN  [scale_up |-> RDiv(up, total), scale_down |-> RDiv(down, total), no_change |-> RDiv(stay, total),
         strengths |-> RAdd(RAdd(up, down), stay), total |-> total]

\* influence: direction = (up - down) / total is multiplied by a hysteresis in
\* [0.4, 1] and a confidence >= 0 and clipped to [-1, 1], and apply_rules
\* divides up and down by the same positive sum, so the influence is never of
\* the opposite sign to the difference of the strengths: -1, 0 or 1 here
InfluenceSign(obs) ==
    LET cpu == Fuzzify(UsageBreaks, obs.cpu_usage)
        mem == Fuzzify(UsageBreaks, obs.memory_usage)
        resp == Fuzzify(ResponseBreaks, obs.response_time)
        up == ScaleUpStrength(cpu, mem, resp)
        down == ScaleDownStrength(cpu, mem, resp)
    IN  IF RGt(up, down) THEN 1 ELSE IF RLt(up, down) THEN -1 ELSE 0

-----------------------------------------------------------------------------
(* rl/q_learning.py and rl/q_learning_fuzzy.py: the policy *)

\* the response_time a state key is built from: 0 for not-a-number, else int()
SanitizedResponse(rt) == IF IsNaN(rt) THEN 0 ELSE Trunc(rt)

\* QLearning.get_state_key
TabularKey(obs) == <<Trunc(obs.cpu_usage), Trunc(obs.memory_usage), SanitizedResponse(obs.response_time), obs.last_action>>

\* QLearningFuzzy.get_state_key: the dominant label of each metric
FuzzyKey(obs) == <<DominantLabel(Fuzzify(UsageBreaks, obs.cpu_usage)), DominantLabel(Fuzzify(UsageBreaks, obs.memory_usage)), DominantLabel(Fuzzify(ResponseBreaks, Flt(SanitizedResponse(obs.response_time))))>>

\* model/agent.py QLearningAgent.get_state_key: int() of every field; int() of
\* a not-a-number raises ValueError
LegacyKeyRaises(obs) == IsNaN(obs.cpu_usage) \/ IsNaN(obs.memory_usage) \/ IsNaN(obs.response_time)

LegacyKey(obs) == <<Trunc(obs.cpu_usage), Trunc(obs.memory_usage), Trunc(obs.response_time), obs.last_action>>

get_state_key(a, obs) ==
    IF a.agent_type = "Q" THEN TabularKey(obs)
    ELSE IF a.agent_type = "QFuzzyHybrid" THEN FuzzyKey(obs)
    ELSE LegacyKey(obs)

\* QLearningFuzzy.get_state_key stores the sanitized response_time back into
\* the caller's observation; QLearning.get_state_key leaves it alone
ObservationAfterKey(a, obs) == IF a.agent_type = "QFuzzyHybrid" THEN [obs EXCEPT !.response_time = Flt(SanitizedResponse(obs.response_time))] ELSE obs

\* np.zeros(n_actions)
Zeros(n) == [i \in 0..(n - 1) |-> Zero]

\* a table that zeroes the entry of the key on every reference
LazyInitResetting(q, n, key) == (key :> Zeros(n)) @@ q

\* the table after "if key not in q_table: q_table[key] = zeros"
LazyInit(q, n, key) == IF key \in DOMAIN q THEN q ELSE (key :> Zeros(n)) @@ q

\* the lowest index holding the maximum of v among lo..hi
RECURSIVE FirstMax(_, _, _)
FirstMax(v, lo, hi) ==
    IF lo = hi THEN lo
    ELSE LET mid == (lo + hi) \div 2
             l == FirstMax(v, lo, mid)
             r == FirstMax(v, mid + 1, hi)
         IN  IF RGt(v[r], v[l]) THEN r ELSE l

\* np.argmax: the lowest index holding the maximum
ArgMax(v) == FirstMax(v, 0, Cardinality(DOMAIN v) - 1)

\* np.max of a value vector
VecMax(v) == v[ArgMax(v)]

\* a comparison that also explores when the draw equals epsilon
ExploresInclusive(u, epsilon) == RLe(u, epsilon)

\* "np.random.rand() < self.epsilon": u is the draw from [0, 1)
Explores(u, epsilon) == RLt(u, epsilon)

\* the action the greedy branch of get_action returns
GreedyAction(a, obs) == ArgMax(LazyInit(a.q_table, a.n_actions, get_state_key(a, obs))[get_state_key(a, obs)])

\* the action get_action returns: u and r are the draws of rand() and randint(), greedy the argmax
ChosenAction(a, u, r, greedy) == IF Explores(u, a.epsilon) THEN r ELSE greedy

\* a get_action that keeps only the entry of the state it was asked about
AfterGetActionEvicting(a, obs) == [a EXCEPT !.q_table = get_state_key(a, obs) :> LazyInit(a.q_table, a.n_actions, get_state_key(a, obs))[get_state_key(a, obs)]]

\* the policy after get_action(obs)
AfterGetAction(a, obs) == [a EXCEPT !.q_table = LazyInit(a.q_table, a.n_actions, get_state_key(a, obs))]

\* an update that overwrites the entry with the target instead of moving toward it
TDValueOverwrite(a, old, reward, best_next) == RAdd(reward, RMul(a.discount_factor, best_next))

\* the new value of Q[s][a]: old + learning_rate * (reward + discount_factor * best_next - old)
TDValue(a, old, reward, best_next) == RAdd(old, RMul(a.learning_rate, RSub(RAdd(reward, RMul(a.discount_factor, best_next)), old)))

\* a decay without the epsilon_min floor
DecayedEpsilonUnfloored(a) == RMul(a.epsilon, a.epsilon_decay)

\* the epsilon decay at the end of update_q_table
DecayedEpsilon(a) == IF RGt(a.epsilon, a.epsilon_min) THEN PyMax(a.epsilon_min, RMul(a.epsilon, a.epsilon_decay)) ELSE a.epsilon

\* the policy after update_q_table(obs, action, reward, next_obs)
AfterUpdate(a, obs, action, reward, next_obs) ==
    LET s == get_state_key(a, obs)
        s2 == get_state_key(a, next_obs)
        q0 == LazyInit(LazyInit(a.q_table, a.n_actions, s), a.n_actions, s2)
        best_next == VecMax(q0[s2])
        q1 == [q0 EXCEPT ![s][action] = TDValue(a, q0[s][action], reward, best_next)]
    IN  [a EXCEPT !.q_table = q1, !.epsilon = DecayedEpsilon(a)]

\* the episodes_trained field save_model writes: its episode_count argument
SavedEpisodes(a, episode_count) == episode_count

\* the record save_model pickles
ModelData(a, episode_count) ==
    [q_table |-> a.q_table, learning_rate |-> a.learning_rate, discount_factor |-> a.discount_factor,
     epsilon |-> a.epsilon, epsilon_min |-> a.epsilon_min, epsilon_decay |-> a.epsilon_decay,
     n_actions |-> a.n_actions, created_at |-> a.created_at, episodes_trained |-> SavedEpisodes(a, episode_count)]

\* a load that restores the table but keeps the loading policy's own epsilon
AfterLoadKeepingEpsilon(a, d) ==
    [a EXCEPT !.q_table = d.q_table, !.learning_rate = d.learning_rate, !.discount_factor = d.discount_factor,
              !.epsilon_min = d.epsilon_min, !.epsilon_decay = d.epsilon_decay,
              !.n_actions = d.n_actions, !.created_at = d.created_at, !.episodes_trained = d.episodes_trained]

\* the policy after load_model read the record d
AfterLoad(a, d) ==
    [a EXCEPT !.q_table = d.q_table, !.learning_rate = d.learning_rate, !.discount_factor = d.discount_factor,
              !.epsilon = d.epsilon, !.epsilon_min = d.epsilon_min, !.epsilon_decay = d.epsilon_decay,
              !.n_actions = d.n_actions, !.created_at = d.created_at, !.episodes_trained = d.episodes_trained]

\* self.n_actions = 100
N_ACTIONS == 100

\* QLearning.__init__ / QLearningFuzzy.__init__
NewPolicy(type, lr, gamma, eps, decay, eps_min, created) ==
    [agent_type |-> type, n_actions |-> N_ACTIONS, learning_rate |-> lr, discount_factor |-> gamma,
     epsilon |-> eps, epsilon_min |-> eps_min, epsilon_decay |-> decay, created_at |-> created,
     episodes_trained |-> 0, q_table |-> <<>>]

-----------------------------------------------------------------------------
(* Inputs of the policy operations *)

\* the longest sequence of policy operations explored
MaxOps == 4

AgentTypes == {"Q", "QFuzzyHybrid"}

\* constructor arguments <<learning_rate, discount_factor, epsilon_start, epsilon_decay, epsilon_min, created_at>>
\* of a training run (train.py) ...
TrainArgs == <<Rat(1, 2), Rat(1, 2), Rat(1, 2), Rat(1, 2), Rat(1, 10), 7>>

\* ... and of a prediction run (predict.py, dump.py): epsilon_start = epsilon_decay = epsilon_min = 0
PredictArgs == <<One, Rat(1, 2), Zero, Zero, Zero, 9>>

MakePolicy(type, c) == NewPolicy(type, c[1], c[2], c[3], c[4], c[5], c[6])

Obs(cpu, mem, rt, la) == [cpu_usage |-> cpu, memory_usage |-> mem, response_time |-> rt, last_action |-> la]

\* an observation whose response_time is not-a-number
ObsNaN == Obs(Flt(15), Flt(50), NaN, 99)

Observations == {Obs(Rat(101, 2), Flt(50), Rat(91, 2), 0), ObsNaN}

\* the draws <<rand(), randint()>> of one get_action
Draws == { <<Zero, 99>>, <<Rat(1, 2), 50>> }

\* the <<action, reward>> pairs update_q_table is called with
Outcomes == { <<99, One>>, <<0, Rat(-1, 2)>> }

Paths == {"best.pkl"}

NoObs == Obs(Zero, Zero, Zero, 0)

\* what the last operation was called with and what it returned
Ret(op, ok) == [op |-> op, ok |-> ok, obs |-> NoObs, action |-> 0, action2 |-> 0, reward |-> Zero, next_obs |-> NoObs, path |-> "", fresh |-> FALSE, error |-> ""]

-----------------------------------------------------------------------------
(* The policy under any sequence of its operations *)

\* agent = QLearning(...) / QLearningFuzzy(...): a new instance of the same class
PolicyConstruct ==
    /\ ops < MaxOps
    /\ agent' = MakePolicy(agent.agent_type, PredictArgs)
    /\ ret' = Ret("init", TRUE)
    /\ ops' = ops + 1
    /\ UNCHANGED <<env, envPc, call, fs, snap, tr>>

\* agent.get_action(obs), and what a second run on the same table and observation returns
PolicyGetAction ==
    /\ ops < MaxOps
    /\ \E obs \in Observations :
         LET greedy == GreedyAction(agent, obs)
             after == AfterGetAction(agent, obs)
             fresh == get_state_key(agent, obs) \notin DOMAIN agent.q_table
         IN  \E d1 \in Draws : \E d2 \in Draws \ {d1} :
                /\ agent' = after
                /\ ret' = [Ret("get_action", TRUE) EXCEPT !.obs = obs,
                               !.action = ChosenAction(agent, d1[1], d1[2], greedy),
                               !.action2 = ChosenAction(agent, d2[1], d2[2], greedy),
                               !.fresh = fresh]
    /\ ops' = ops + 1
    /\ UNCHANGED <<env, envPc, call, fs, snap, tr>>

\* agent.update_q_table(obs, action, reward, next_obs)
PolicyUpdate ==
    /\ ops < MaxOps
    /\ \E obs \in Observations, o \in Outcomes, nxt \in Observations :
         /\ agent' = AfterUpdate(agent, obs, o[1], o[2], nxt)
         /\ ret' = [Ret("update_q_table", TRUE) EXCEPT !.obs = obs, !.action = o[1], !.reward = o[2], !.next_obs = nxt]
    /\ ops' = ops + 1
    /\ UNCHANGED <<env, envPc, call, fs, snap, tr>>

\* agent.add_episode_count()
PolicyAddEpisode ==
    /\ ops < MaxOps
    /\ agent' = [agent EXCEPT !.episodes_trained = @ + 1]
    /\ ret' = Ret("add_episode_count", TRUE)
    /\ ops' = ops + 1
    /\ UNCHANGED <<env, envPc, call, fs, snap, tr>>

\* the file system after save_model(path, episode_count); snap keeps the saving policy
SaveTo(path, episode_count) ==
    /\ fs' = (path :> ModelData(agent, episode_count)) @@ fs
    /\ snap' = (path :> agent) @@ snap

\* agent.save_model(path, agent.episodes_trained), as train.py and Trainer._interrupted_save call it
PolicySaveModel ==
    /\ ops < MaxOps
    /\ \E path \in Paths :
         /\ SaveTo(path, agent.episodes_trained)
         /\ ret' = [Ret("save_model", TRUE) EXCEPT !.path = path]
    /\ ops' = ops + 1
    /\ UNCHANGED <<env, envPc, call, agent, tr>>

\* agent.save_model(path): episode_count takes its default, 0
PolicySaveModelDefault ==
    /\ ops < MaxOps
    /\ \E path \in Paths :
         /\ SaveTo(path, 0)
         /\ ret' = [Ret("save_model", TRUE) EXCEPT !.path = path, !.fresh = TRUE]
    /\ ops' = ops + 1
    /\ UNCHANGED <<env, envPc, call, agent, tr>>

\* agent.load_model(path) of a file that exists
PolicyLoadModel ==
    /\ ops < MaxOps
    /\ \E path \in DOMAIN fs :
         /\ agent' = AfterLoad(agent, fs[path])
         /\ ret' = [Ret("load_model", TRUE) EXCEPT !.path = path, !.fresh = (agent.q_table # snap[path].q_table /\ agent.epsilon # snap[path].epsilon)]
    /\ ops' = ops + 1
    /\ UNCHANGED <<env, envPc, call, fs, snap, tr>>

\* a failed load that leaves an empty policy behind
AfterFailedLoadCleared(a) == [a EXCEPT !.q_table = <<>>, !.episodes_trained = 0]

\* load_model raises FileNotFoundError before its first assignment
AfterFailedLoad(a) == a

\* agent.load_model(path) of a missing file: FileNotFoundError, logged and re-raised
PolicyLoadMissing ==
    /\ ops < MaxOps
    /\ \E path \in Paths \ DOMAIN fs : ret' = [Ret("load_model", FALSE) EXCEPT !.path = path, !.error = "FileNotFoundError"]
    /\ agent' = AfterFailedLoad(agent)
    /\ ops' = ops + 1
    /\ UNCHANGED <<env, envPc, call, fs, snap, tr>>


-----------------------------------------------------------------------------
(* environment/environment.py: KubernetesEnv *)

\* defaults of KubernetesEnv.__init__
MIN_CPU == 20

MAX_CPU == 90

MIN_MEMORY == 20

MAX_MEMORY == 90

MAX_RESPONSE_TIME == 100

\* len(self.action_space)
ACTION_SPACE == 100

\* the default of wait_time, in seconds
WAIT_TIME == 30

\* KubernetesEnv.__init__: replica_state and the metrics are no attributes yet
\* (has_replica_state is hasattr(self, "replica_state"))
NewEnv(min, max, iteration, retries, rtw, cmw, cw) ==
    [min_replicas |-> min, max_replicas |-> max, range_replicas |-> IF max - min > 1 THEN max - min ELSE 1,
     iteration |-> iteration, initial_iteration |-> iteration, max_scaling_retries |-> retries,
     response_time_weight |-> rtw, cpu_memory_weight |-> cmw, cost_weight |-> cw,
     last_action |-> 0, has_replica_state |-> FALSE, replica_state |-> 0, replica_state_old |-> 0,
     wait_time |-> WAIT_TIME,
     cpu_usage |-> Zero, memory_usage |-> Zero, response_time |-> Zero, replica |-> 0]

\* the penalty of one usage metric against its bounds
UsagePenalty(usage, lo, hi) ==
    IF RLt(usage, Flt(lo)) THEN RDiv(RSub(Flt(lo), usage), Flt(lo))
    ELSE IF RGt(usage, Flt(hi)) THEN RDiv(RSub(usage, Flt(hi)), Flt(100 - hi))
    ELSE Zero

\* a clamp that only caps the reward from above
ClampUpperOnly(reward) == PyMin(reward, One)

\* float(max(min(reward, 1.0), -1.0))
Clamp(reward) == PyMax(PyMin(reward, One), Flt(-1))

\* KubernetesEnv._calculate_reward
CalculateReward(e) ==
    LET response_time_percentage == RMul(RDiv(e.response_time, Flt(MAX_RESPONSE_TIME)), Flt(100))
        cpu_pen == UsagePenalty(e.cpu_usage, MIN_CPU, MAX_CPU)
        mem_pen == UsagePenalty(e.memory_usage, MIN_MEMORY, MAX_MEMORY)
        resp_pen == PyMin(e.response_time_weight, PyMax(Zero, RDiv(RSub(response_time_percentage, Flt(100)), Flt(100))))
        cpu_mem_pen == RMul(e.cpu_memory_weight, RAdd(cpu_pen, mem_pen))
        cost_pen == RDiv(RMul(e.cost_weight, Flt(e.replica_state - e.min_replicas)), Flt(e.range_replicas))
    IN  Clamp(RSub(RSub(RSub(One, resp_pen), cpu_mem_pen), cost_pen))

\* KubernetesEnv._get_observation
GetObservation(e) == Obs(e.cpu_usage, e.memory_usage, PyMin(RMul(RDiv(e.response_time, Flt(MAX_RESPONSE_TIME)), Flt(100)), Flt(100)), e.last_action)

\* a target that is rounded but not clamped to the replica bounds
TargetReplicasUnclamped(e, action) == PyRound(RAdd(Flt(e.min_replicas), RMul(Rat(action, 99), Flt(e.range_replicas))))

\* a target that is cut off with int() where the code rounds
TargetReplicasTruncated(e, action) ==
    LET cut == Trunc(RAdd(Flt(e.min_replicas), RMul(Rat(action, 99), Flt(e.range_replicas))))
        capped == IF cut < e.max_replicas THEN cut ELSE e.max_replicas
    IN  IF e.min_replicas >= capped THEN e.min_replicas ELSE capped

\* step(): the replica count an action maps to
TargetReplicas(e, action) ==
    LET percentage == IF ACTION_SPACE > 1 THEN Rat(action, 99) ELSE Zero
        rounded == PyRound(RAdd(Flt(e.min_replicas), RMul(percentage, Flt(e.range_replicas))))
        capped == IF rounded < e.max_replicas THEN rounded ELSE e.max_replicas
    IN  IF e.min_replicas >= capped THEN e.min_replicas ELSE capped

\* the frame of one reset() or step() call; steps counts the step() calls made
\* since the last reset() returned, in_episode whether a reset() has returned
NewCall(op, action, iteration0) ==
    [op |-> op, action |-> action, iteration0 |-> iteration0, attempt |-> 0, tries |-> 0, slept |-> 0,
     succeeded |-> FALSE, ready |-> FALSE, ready_replicas |-> 0, increase |-> FALSE,
     reward |-> Zero, terminated |-> FALSE, observation |-> NoObs, raised |-> "", exhausted |-> FALSE, polls |-> 0, last_read |-> 0, warmup |-> 0,
     steps |-> IF op = "reset" THEN 0 ELSE call.steps + 1,
     in_episode |-> IF op = "reset" THEN FALSE ELSE call.in_episode]

NoCall == [op |-> "none", action |-> 0, iteration0 |-> 0, attempt |-> 0, tries |-> 0, slept |-> 0,
           succeeded |-> FALSE, ready |-> FALSE, ready_replicas |-> 0, increase |-> FALSE,
           reward |-> Zero, terminated |-> FALSE, observation |-> NoObs, raised |-> "", exhausted |-> FALSE, polls |-> 0, last_read |-> 0, warmup |-> 0,
           steps |-> 0, in_episode |-> FALSE]

\* reset(), up to the call of _scale_and_get_metrics
ResetBegins ==
    /\ env' = [env EXCEPT !.iteration = env.initial_iteration,
                          !.replica_state_old = IF env.has_replica_state THEN env.replica_state ELSE env.min_replicas,
                          !.replica_state = env.min_replicas,
                          !.has_replica_state = TRUE]
    /\ call' = NewCall("reset", 0, env.initial_iteration)
    /\ envPc' = "scale"

\* step(action), up to the call of _scale_and_get_metrics; before the first
\* reset() self.replica_state does not exist and reading it raises AttributeError
StepBegins(action) ==
    IF env.has_replica_state
    THEN /\ env' = [env EXCEPT !.last_action = action,
                               !.replica_state_old = env.replica_state,
                               !.replica_state = TargetReplicas(env, action)]
         /\ call' = NewCall("step", action, env.iteration)
         /\ envPc' = "scale"
    ELSE /\ env' = [env EXCEPT !.last_action = action]
         /\ call' = [NewCall("step", action, env.iteration) EXCEPT !.raised = "AttributeError"]
         /\ envPc' = "raised"

\* sys.float_info.max_exp: 2 ** k converts to a float only for k < 1024
FLOAT_MAX_EXP == 1024

\* the largest k for which 1.5 ** k is a finite float
POW_15_MAX == 1750

\* "1.5 ** (attempt - 1)" or "base_delay * (2 ** (attempt - 1))" raises OverflowError
BackoffOverflows(attempt) == attempt - 1 > POW_15_MAX \/ attempt - 1 >= FLOAT_MAX_EXP

\* delay = min(base_delay * 2 ** (attempt - 1), max_delay), in seconds
Delay(attempt) == IF attempt - 1 >= 5 THEN 30 ELSE 2 ^ (attempt - 1)

\* the failures of patch_namespaced_deployment_scale that _scale tells apart
ScaleFailures == {"etcd_timeout", "server_error", "conflict", "api_error", "exception"}

\* a retry loop that sleeps and goes round again after a success too
ScaleAttemptKeepsTrying(outcome) ==
    /\ envPc = "scale"
    /\ call.attempt < env.max_scaling_retries
    /\ call' = [call EXCEPT !.attempt = @ + 1, !.tries = @ + 1, !.slept = @ + Delay(call.attempt + 1),
                            !.succeeded = @ \/ outcome = "ok"]
    /\ envPc' = "scale"
    /\ UNCHANGED <<env, agent, fs, ret, snap, tr, ops>>

\* _scale: one pass of the retry loop, the actuator answering with outcome
ScaleAttempt(outcome) ==
    /\ envPc = "scale"
    /\ call.attempt < env.max_scaling_retries
    /\ IF BackoffOverflows(call.attempt + 1)
       THEN /\ call' = [call EXCEPT !.attempt = @ + 1, !.raised = "OverflowError"]
            /\ envPc' = "raised"
       ELSE IF outcome = "ok"
       THEN /\ call' = [call EXCEPT !.attempt = @ + 1, !.tries = @ + 1, !.succeeded = TRUE]
            /\ envPc' = "wait_ready"
       ELSE /\ call' = [call EXCEPT !.attempt = @ + 1, !.tries = @ + 1, !.slept = @ + Delay(call.attempt + 1)]
            /\ envPc' = "scale"
    /\ UNCHANGED <<env, agent, fs, ret, snap, tr, ops>>

\* a _scale that gives up by raising once the retries are used up
ScaleExhaustedAborts ==
    /\ envPc = "scale"
    /\ call.attempt >= env.max_scaling_retries
    /\ call' = [call EXCEPT !.exhausted = TRUE, !.raised = "RuntimeError"]
    /\ envPc' = "raised"
    /\ UNCHANGED <<env, agent, fs, ret, snap, tr, ops>>

\* _scale: the retries are used up; logged, _scale returns False and the call
\* goes on (exhausted records it for as long as the frame is kept)
ScaleExhausted ==
    /\ envPc = "scale"
    /\ call.attempt >= env.max_scaling_retries
    /\ call' = [call EXCEPT !.exhausted = TRUE]
    /\ envPc' = "wait_ready"
    /\ UNCHANGED <<env, agent, fs, ret, snap, tr, ops>>

\* utils/cluster.py wait_for_pods_ready: TRUE with every desired pod ready, or
\* FALSE at the timeout with the ready count it read last
ReadyAnswers(desired) ==
    {<<TRUE, desired>> : d \in {desired} \ {0}} \cup {<<FALSE, n>> : n \in {0, desired - 1} \cap Nat}

\* _scale_and_get_metrics: the line after _scale and the wait for the pods
PodsReady(answer) ==
    /\ envPc = "wait_ready"
    /\ answer \in ReadyAnswers(env.replica_state)
    /\ call' = [call EXCEPT !.increase = env.replica_state > env.replica_state_old,
                            !.ready = answer[1], !.ready_replicas = answer[2]]
    /\ envPc' = "get_metrics"
    /\ UNCHANGED <<env, agent, fs, ret, snap, tr, ops>>

\* the metrics Prometheus may report: <<cpu, memory, response time>>
MetricSamples == { <<Flt(50), Flt(50), Flt(50)>>, <<Flt(95), Flt(10), Flt(150)>>, <<Rat(31, 2), Flt(50), NaN>> }

\* utils/metrics.py get_metrics: the means of exactly `replicas` pods, or zeros at the timeout
MetricAnswers(replicas) ==
    {<<m[1], m[2], m[3], replicas>> : m \in IF replicas > 0 THEN MetricSamples ELSE {}} \cup {<<Zero, Zero, Zero, 0>>}

\* the assignment of the metrics in _scale_and_get_metrics
WithMetrics(e, m) == [e EXCEPT !.cpu_usage = m[1], !.memory_usage = m[2], !.response_time = m[3], !.replica = m[4]]

\* a get_metrics that sleeps wait_time whenever the replica count changed
WarmUpOnChange(e, increase) == IF e.replica_state # e.replica_state_old /\ e.wait_time > 0 THEN e.wait_time ELSE 0

\* get_metrics: "if increase and wait_time > 0: time.sleep(wait_time)", the
\* seconds slept before the first query
WarmUp(e, increase) == IF increase /\ e.wait_time > 0 THEN e.wait_time ELSE 0

\* the frame once the call returns: the locals of _scale and _scale_and_get_metrics are gone
Returned(c) == [c EXCEPT !.attempt = 0, !.tries = 0, !.slept = 0, !.succeeded = FALSE,
                         !.ready = FALSE, !.ready_replicas = 0, !.increase = FALSE,
                         !.polls = 0, !.last_read = 0]

\* reset() after _scale_and_get_metrics
ResetEnds(e) ==
    /\ env' = [e EXCEPT !.last_action = 0]
    /\ call' = [Returned(call) EXCEPT !.observation = GetObservation(env'), !.in_episode = TRUE,
                                      !.warmup = WarmUp(e, call.increase)]
    /\ envPc' = "idle"

\* an episode that ends one step late
TerminatedBelowZero(iteration) == iteration < 0

\* terminated = bool(self.iteration <= 0)
Terminated(iteration) == iteration <= 0

\* a step() that computes its reward before the metrics of the step are in
StepEndsRewardFirst(e) ==
    /\ env' = [e EXCEPT !.iteration = @ - 1]
    /\ call' = [Returned(call) EXCEPT !.reward = CalculateReward(env), !.terminated = Terminated(e.iteration - 1),
                            !.observation = GetObservation(e), !.warmup = WarmUp(e, call.increase)]
    /\ envPc' = "idle"

\* step() after _scale_and_get_metrics
StepEnds(e) ==
    /\ env' = [e EXCEPT !.iteration = @ - 1]
    /\ call' = [Returned(call) EXCEPT !.reward = CalculateReward(e), !.terminated = Terminated(e.iteration - 1),
                            !.observation = GetObservation(e), !.warmup = WarmUp(e, call.increase)]
    /\ envPc' = "idle"

\* get_metrics returns and reset() or step() runs to its return
MetricsReturn(m) ==
    /\ envPc = "get_metrics"
    /\ m \in MetricAnswers(call.ready_replicas)
    /\ IF call.op = "reset" THEN ResetEnds(WithMetrics(env, m)) ELSE StepEnds(WithMetrics(env, m))
    /\ UNCHANGED <<agent, fs, ret, snap, tr, ops>>

-----------------------------------------------------------------------------
(* The environment driven through its interface: reset() and step(action) *)

MaxCalls == 4

\* the weights KubernetesEnv.__init__ defaults to
DefaultWeights == <<One, Rat(1, 2), Rat(3, 10)>>

\* <<min_replicas, max_replicas, iteration, max_scaling_retries>>
EnvConfigs == { <<1, 4, 2, 2>>, <<2, 2, 1, 1>>, <<1, 3, 3, 1>> }

MakeEnv(c, w) == NewEnv(c[1], c[2], c[3], c[4], w[1], w[2], w[3])

EnvActions == {0, 50, 99}

NoTrainer == [pc |-> "none"]

\* what the environment's own operations leave alone
PolicyIdle == UNCHANGED <<agent, fs, ret, snap, tr>>

EnvReset ==
    /\ envPc \in {"idle", "raised"}
    /\ ops < MaxCalls
    /\ ResetBegins
    /\ ops' = ops + 1
    /\ PolicyIdle

EnvStep ==
    /\ envPc \in {"idle", "raised"}
    /\ ops < MaxCalls
    /\ \E action \in EnvActions : StepBegins(action)
    /\ ops' = ops + 1
    /\ PolicyIdle

\* the part of the state the environment does not touch
BesidesEnv ==
    /\ agent = MakePolicy("Q", TrainArgs)
    /\ fs = <<>>
    /\ snap = <<>>
    /\ ret = Ret("init", TRUE)
    /\ tr = NoTrainer
    /\ ops = 0

InitEnv ==
    /\ env \in {MakeEnv(c, DefaultWeights) : c \in EnvConfigs} \cup {[MakeEnv(<<1, 4, 2, 2>>, DefaultWeights) EXCEPT !.wait_time = 0]}
    /\ envPc = "idle"
    /\ call = NoCall
    /\ BesidesEnv

EnvInternal ==
    \/ \E outcome \in {"ok"} \cup ScaleFailures : ScaleAttempt(outcome)
    \/ ScaleExhausted
    \/ \E answer \in ReadyAnswers(env.replica_state) : PodsReady(answer)
    \/ \E m \in MetricAnswers(call.ready_replicas) : MetricsReturn(m)

NextEnv == EnvReset \/ EnvStep \/ EnvInternal

SpecEnv == InitEnv /\ [][NextEnv]_vars

-----------------------------------------------------------------------------
(* _scale alone: the first reset() of an environment, up to the return of _scale *)

\* max_scaling_retries: small ones, the default, and one beyond the range of a float
RetrySettings == {1, 2, 3, 1000, 1025}

InitScale ==
    /\ env \in {MakeEnv(<<1, 4, 2, n>>, DefaultWeights) : n \in RetrySettings}
    /\ envPc = "idle"
    /\ call = NoCall
    /\ BesidesEnv

FirstReset ==
    /\ envPc = "idle"
    /\ call.op = "none"
    /\ ResetBegins
    /\ ops' = ops + 1
    /\ PolicyIdle

NextScale ==
    \/ FirstReset
    \/ \E outcome \in {"ok"} \cup ScaleFailures : ScaleAttempt(outcome)
    \/ ScaleExhausted

SpecScale == InitScale /\ [][NextScale]_vars

-----------------------------------------------------------------------------
(* utils/cluster.py wait_for_pods_ready poll by poll, from the return of _scale
   to the return of get_metrics. polls counts the passes of the loop, last_read
   keeps the count the last q_ready query answered (0 before the first). *)

MaxPolls == 3

\* a poll that takes every count at or above the desired one for ready
ReadyNowAtLeast(ready_replicas, desired_replicas) == ready_replicas >= desired_replicas

\* "if ready_replicas == desired_replicas > 0"
ReadyNow(ready_replicas, desired_replicas) == ready_replicas = desired_replicas /\ desired_replicas > 0

\* one pass of the loop: the desired count Prometheus reports differs
\* ("mismatch"), a query raises ("error"), or q_ready answers a count
PollOutcomes(desired) == {<<"mismatch", 0>>, <<"error", 0>>} \cup {<<"count", n>> : n \in 0 .. desired + 1}

ReadyPoll(outcome) ==
    /\ envPc = "wait_ready"
    /\ call.polls < MaxPolls
    /\ outcome \in PollOutcomes(env.replica_state)
    /\ IF outcome[1] \in {"mismatch", "error"}
       THEN /\ call' = [call EXCEPT !.polls = @ + 1]
            /\ envPc' = "wait_ready"
       ELSE IF ReadyNow(outcome[2], env.replica_state)
       THEN /\ call' = [call EXCEPT !.polls = @ + 1, !.last_read = outcome[2], !.ready_replicas = outcome[2], !.ready = TRUE,
                                    !.increase = env.replica_state > env.replica_state_old]
            /\ envPc' = "get_metrics"
       ELSE /\ call' = [call EXCEPT !.polls = @ + 1, !.last_read = outcome[2], !.ready_replicas = outcome[2]]
            /\ envPc' = "wait_ready"
    /\ UNCHANGED <<env, agent, fs, ret, snap, tr, ops>>

\* the timeout has elapsed at the head of the loop: (False, desired, ready_replicas)
ReadyTimeout ==
    /\ envPc = "wait_ready"
    /\ call' = [call EXCEPT !.ready = FALSE, !.increase = env.replica_state > env.replica_state_old]
    /\ envPc' = "get_metrics"
    /\ UNCHANGED <<env, agent, fs, ret, snap, tr, ops>>

InitReady ==
    /\ \E r \in {<<0, 3>>, <<1, 3>>} : \E desired \in r[1] .. r[2], old \in {r[1], r[2]} :
          env = [MakeEnv(<<r[1], r[2], 2, 1>>, DefaultWeights) EXCEPT !.has_replica_state = TRUE, !.replica_state = desired, !.replica_state_old = old]
    /\ envPc = "wait_ready"
    /\ call = [NoCall EXCEPT !.op = "step", !.iteration0 = 2, !.attempt = 1, !.tries = 1, !.succeeded = TRUE, !.in_episode = TRUE]
    /\ BesidesEnv

NextReady ==
    \/ \E outcome \in PollOutcomes(env.replica_state) : ReadyPoll(outcome)
    \/ ReadyTimeout
    \/ \E m \in MetricAnswers(call.ready_replicas) : MetricsReturn(m)

SpecReady == InitReady /\ [][NextReady]_vars

-----------------------------------------------------------------------------
(* the action-to-replica mapping alone: step(0), step(1), ... step(99) after a
   reset(), each followed up to its call of _scale *)

\* <<min_replicas, max_replicas>>
MappingRanges == { <<1, 10>>, <<1, 1>>, <<3, 3>>, <<1, 4>>, <<2, 50>>, <<0, 7>>, <<1, 200>> }

InitMapping ==
    /\ \E r \in MappingRanges :
          env = [MakeEnv(<<r[1], r[2], 1, 1>>, DefaultWeights) EXCEPT !.has_replica_state = TRUE, !.replica_state = r[1], !.replica_state_old = r[1]]
    /\ envPc = "idle"
    /\ call = [NoCall EXCEPT !.op = "reset", !.in_episode = TRUE]
    /\ BesidesEnv

MapNextAction ==
    /\ envPc \in {"idle", "scale"}
    /\ \E action \in 0 .. ACTION_SPACE - 1 :
          /\ action = IF call.op = "step" THEN call.action + 1 ELSE 0
          /\ StepBegins(action)
    /\ UNCHANGED <<agent, fs, ret, snap, tr, ops>>

NextMapping == MapNextAction

SpecMapping == InitMapping /\ [][NextMapping]_vars

-----------------------------------------------------------------------------
(* _calculate_reward alone *)

UsageInputs == {Zero, Flt(5), Flt(20), Flt(50), Flt(90), Flt(95), Flt(100), Flt(250)}

ResponseInputs == {Zero, Flt(50), Flt(100), Flt(150), Flt(250), Flt(1000), NaN}

WeightInputs == {Zero, Rat(3, 10), Rat(1, 2), One, Flt(5), Flt(-1)}

ReplicaRanges == { <<1, 1>>, <<1, 2>>, <<1, 4>>, <<2, 50>> }

InitReward ==
    /\ \E r \in ReplicaRanges, replica_state \in {1, 2, 4, 50}, rtw \in WeightInputs, cmw \in WeightInputs, cw \in WeightInputs :
       \E cpu \in UsageInputs, mem \in {Flt(5), Flt(50), Flt(250)}, rt \in ResponseInputs :
          /\ replica_state \in r[1]..r[2]
          /\ env = [WithMetrics(MakeEnv(<<r[1], r[2], 1, 1>>, <<rtw, cmw, cw>>), <<cpu, mem, rt, replica_state>>)
                       EXCEPT !.has_replica_state = TRUE, !.replica_state = replica_state]
    /\ envPc = "metrics_read"
    /\ call = [NoCall EXCEPT !.op = "step"]
    /\ BesidesEnv

ApplyReward ==
    /\ envPc = "metrics_read"
    /\ call' = [call EXCEPT !.reward = CalculateReward(env)]
    /\ envPc' = "rewarded"
    /\ UNCHANGED <<env, agent, fs, ret, snap, tr, ops>>

NextReward == ApplyReward

SpecReward == InitReward /\ [][NextReward]_vars

-----------------------------------------------------------------------------
(* The policy driven through its interface *)

InitPolicy ==
    /\ \E type \in AgentTypes : agent = MakePolicy(type, TrainArgs)
    /\ fs = <<>>
    /\ snap = <<>>
    /\ ret = Ret("init", TRUE)
    /\ ops = 0
    /\ env = MakeEnv(<<1, 4, 2, 2>>, DefaultWeights)
    /\ envPc = "idle"
    /\ call = NoCall
    /\ tr = NoTrainer

NextPolicy ==
    \/ PolicyConstruct
    \/ PolicyGetAction
    \/ PolicyUpdate
    \/ PolicyAddEpisode
    \/ PolicySaveModel
    \/ PolicySaveModelDefault
    \/ PolicyLoadModel
    \/ PolicyLoadMissing

SpecPolicy == InitPolicy /\ [][NextPolicy]_vars

-----------------------------------------------------------------------------
(* rl/fuzzy.py: apply_rules over a grid of observations in 0..100 *)

\* the values each metric of the observation is drawn from
FuzzyInputs == {0, 30, 55, 80, 100}

InitFuzzy ==
    /\ \E cpu \in FuzzyInputs, mem \in FuzzyInputs, rt \in FuzzyInputs :
          ret = [op |-> "observed", obs |-> Obs(Flt(cpu), Flt(mem), Flt(rt), 0), memberships |-> ApplyRules(NoObs)]
    /\ agent = MakePolicy("QFuzzyHybrid", TrainArgs)
    /\ fs = <<>>
    /\ snap = <<>>
    /\ ops = 0
    /\ env = MakeEnv(<<1, 4, 2, 2>>, DefaultWeights)
    /\ envPc = "idle"
    /\ call = NoCall
    /\ tr = NoTrainer

\* Fuzzy.apply_rules(Fuzzy.fuzzify(obs))
FuzzyApplyRules ==
    /\ ret.op = "observed"
    /\ ret' = [ret EXCEPT !.op = "apply_rules", !.memberships = ApplyRules(ret.obs)]
    /\ ops' = ops + 1
    /\ UNCHANGED <<env, envPc, call, agent, fs, snap, tr>>

NextFuzzy == FuzzyApplyRules

SpecFuzzy == InitFuzzy /\ [][NextFuzzy]_vars

-----------------------------------------------------------------------------
(* trainer.py: Trainer.train *)

\* Trainer.__init__ without resume, and the locals of train(); n_get, n_step,
\* n_ret and n_upd count the calls of get_action, the calls and the returns of
\* env.step and the calls of update_q_table
NewTrainer(episodes) ==
    [pc |-> "new", episodes |-> episodes, ep |-> 0, obs |-> NoObs, act |-> 0, nxt |-> NoObs, rew |-> Zero,
     term |-> FALSE, total |-> Zero, has_best |-> FALSE, total_best |-> Zero, handlers |-> "default",
     n_get |-> 0, n_step |-> 0, n_ret |-> 0, n_upd |-> 0, error |-> "", n_isave |-> 0, totals |-> <<>>,
     prior |-> "default", savecfg |-> FALSE]

\* a loop body that asks for the next action as soon as step() has returned
LoopPcActsBeforeUpdate(pc, term) ==
    CASE pc = "act" -> "step" [] pc = "step" -> "stepping" [] pc = "stepping" -> "act"
      [] pc = "update" -> IF term THEN "episode_end" ELSE "act"

\* the body of "while True" in train(): get_action, env.step, update_q_table, "if term: break"
LoopPc(pc, term) ==
    CASE pc = "act" -> "step" [] pc = "step" -> "stepping" [] pc = "stepping" -> "update"
      [] pc = "update" -> IF term THEN "episode_end" ELSE "act"

\* Trainer.__init__ with resume: load_model(resume_path), then epsilon set back
\* to the constructor's value (reset_epsilon) and epsilon_decay replaced
Resumed(a, d, change_epsilon_decay) ==
    [AfterLoad(a, d) EXCEPT !.epsilon = a.epsilon, !.epsilon_decay = change_epsilon_decay]

\* a train() that leaves its own handlers installed when it is left
HandlersLeftInstalled(t) == t.handlers

\* _restore_signal_handlers, and the finally block of _signal_handler: the
\* handlers _install_signal_handlers found (prior) are installed again
HandlersAfterTrain(t) == t.prior

\* train(): self.savecfg = SaveConfig(note, start_time)
TrainBegins ==
    /\ tr.pc = "new"
    /\ tr' = [tr EXCEPT !.savecfg = TRUE, !.pc = "install"]
    /\ UNCHANGED <<env, envPc, call, agent, fs, ret, snap, ops>>

\* train(): _install_signal_handlers(), and the try block up to the loop over
\* the episodes
TrainInstallHandlers ==
    /\ tr.pc = "install"
    /\ tr' = [tr EXCEPT !.handlers = "trainer", !.has_best = FALSE, !.ep = 0,
                        !.pc = IF tr.episodes > 0 THEN "episode" ELSE "finally"]
    /\ UNCHANGED <<env, envPc, call, agent, fs, ret, snap, ops>>

\* the head of an episode: add_episode_count() and the call of env.reset()
TrainEpisodeBegins ==
    /\ tr.pc = "episode"
    /\ envPc = "idle"
    /\ agent' = [agent EXCEPT !.episodes_trained = @ + 1]
    /\ ResetBegins
    /\ tr' = [tr EXCEPT !.pc = "reset"]
    /\ UNCHANGED <<fs, ret, snap, ops>>

\* obs = self.env.reset() returns; total = 0.0
TrainResetReturns ==
    /\ tr.pc = "reset"
    /\ envPc = "idle"
    /\ tr' = [tr EXCEPT !.obs = call.observation, !.total = Zero, !.pc = "act"]
    /\ UNCHANGED <<env, envPc, call, agent, fs, ret, snap, ops>>

\* act = self.agent.get_action(obs)
TrainGetAction ==
    /\ tr.pc = "act"
    /\ \E d \in Draws :
         tr' = [tr EXCEPT !.act = ChosenAction(agent, d[1], d[2], GreedyAction(agent, tr.obs)),
                          !.obs = ObservationAfterKey(agent, tr.obs),
                          !.n_get = @ + 1, !.pc = LoopPc("act", FALSE)]
    /\ agent' = AfterGetAction(agent, tr.obs)
    /\ UNCHANGED <<env, envPc, call, fs, ret, snap, ops>>

\* the call of self.env.step(act)
TrainStepCall ==
    /\ tr.pc = "step"
    /\ envPc = "idle"
    /\ StepBegins(tr.act)
    /\ tr' = [tr EXCEPT !.n_step = @ + 1, !.pc = LoopPc("step", FALSE)]
    /\ UNCHANGED <<agent, fs, ret, snap, ops>>

\* nxt, rew, term, info = self.env.step(act) returns
TrainStepReturns ==
    /\ tr.pc = "stepping"
    /\ envPc = "idle"
    /\ tr' = [tr EXCEPT !.nxt = call.observation, !.rew = call.reward, !.term = call.terminated,
                        !.n_ret = @ + 1, !.pc = LoopPc("stepping", FALSE)]
    /\ UNCHANGED <<env, envPc, call, agent, fs, ret, snap, ops>>

\* self.agent.update_q_table(obs, act, rew, nxt); total += rew; obs = nxt; if term: break
TrainUpdate ==
    /\ tr.pc = "update"
    /\ agent' = AfterUpdate(agent, tr.obs, tr.act, tr.rew, tr.nxt)
    /\ tr' = [tr EXCEPT !.total = RAdd(@, tr.rew), !.obs = ObservationAfterKey(agent, tr.nxt),
                        !.nxt = ObservationAfterKey(agent, tr.nxt),
                        !.n_upd = @ + 1, !.pc = LoopPc("update", tr.term)]
    /\ UNCHANGED <<env, envPc, call, fs, ret, snap, ops>>

\* "if total > total_best", total_best starting at -inf
BeatsBest(t) == ~t.has_best \/ RGt(t.total, t.total_best)

\* the end of an episode: _save_checkpoint(ep, total_best, note, start_time) if
\* the total is a new best, then the next episode or the end of the loop
TrainEpisodeEnds ==
    /\ tr.pc = "episode_end"
    /\ IF BeatsBest(tr)
       THEN SaveTo(<<"checkpoints", tr.ep, tr.total>>, tr.ep + 1)
       ELSE UNCHANGED <<fs, snap>>
    /\ tr' = [tr EXCEPT !.has_best = TRUE, !.total_best = IF BeatsBest(tr) THEN tr.total ELSE @,
                        !.totals = Append(@, tr.total),
                        !.ep = @ + 1, !.pc = IF tr.ep + 1 < tr.episodes THEN "episode" ELSE "finally"]
    /\ UNCHANGED <<env, envPc, call, agent, ret, ops>>

\* finally: _restore_signal_handlers()
TrainFinally ==
    /\ tr.pc = "finally"
    /\ tr' = [tr EXCEPT !.handlers = HandlersAfterTrain(tr), !.pc = "done"]
    /\ UNCHANGED <<env, envPc, call, agent, fs, ret, snap, ops>>

\* an exception of env.reset() or env.step() passes through train(): no except
\* clause but "except KeyboardInterrupt", so only the finally block runs
TrainRaises ==
    /\ tr.pc \in {"reset", "stepping"}
    /\ envPc = "raised"
    /\ tr' = [tr EXCEPT !.handlers = HandlersAfterTrain(tr), !.error = call.raised, !.pc = "raised"]
    /\ UNCHANGED <<env, envPc, call, agent, fs, ret, snap, ops>>

\* the file names of _interrupted_save: the timestamp is int(time.time()), so a
\* second save falls into the same second (ts 0) or a later one (ts 1)
InterruptedPath(a, ts) == <<"interrupted", a.episodes_trained, ts>>

\* the files after the saves a signal causes: one in _signal_handler, and for
\* SIGINT a second one in "except KeyboardInterrupt"
AfterInterruptedSaves(files, a, sig, ts) ==
    LET first == (InterruptedPath(a, 0) :> ModelData(a, a.episodes_trained)) @@ files
    IN  IF sig = "SIGINT" THEN (InterruptedPath(a, ts) :> ModelData(a, a.episodes_trained)) @@ first ELSE first

\* SIGINT or SIGTERM while train() runs with the Trainer's handlers installed:
\* _signal_handler saves, restores the old handlers and raises KeyboardInterrupt
\* or SystemExit(0) in the main thread, whatever it was doing; train() saves
\* again on KeyboardInterrupt, re-raises, and its finally block restores the handlers
TrainSignal ==
    /\ tr.handlers = "trainer"
    /\ tr.pc \in {"episode", "reset", "act", "step", "stepping", "update", "episode_end"}
    /\ \E sig \in {"SIGINT", "SIGTERM"}, ts \in {0, 1} :
         /\ sig = "SIGTERM" => ts = 0
         /\ fs' = AfterInterruptedSaves(fs, agent, sig, ts)
         /\ snap' = [path \in DOMAIN fs' |-> IF path \in DOMAIN fs /\ fs'[path] = fs[path] THEN snap[path] ELSE agent]
         /\ tr' = [tr EXCEPT !.handlers = HandlersAfterTrain(tr), !.n_isave = IF sig = "SIGINT" THEN 2 ELSE 1,
                             !.error = IF sig = "SIGINT" THEN "KeyboardInterrupt" ELSE "SystemExit",
                             !.pc = "raised"]
         /\ envPc' = IF envPc = "idle" THEN "idle" ELSE "raised"
         /\ call' = IF envPc = "idle" THEN call ELSE [call EXCEPT !.raised = tr'.error]
    /\ UNCHANGED <<env, agent, ret, ops>>

\* train.py after trainer.train() returned: the final save_model, which logs a
\* failure and raises it again; nothing around the call catches it
MainFinalSave ==
    /\ tr.pc = "done"
    /\ \E saved \in BOOLEAN :
         IF saved
         THEN /\ SaveTo(<<"final", 0, 0>>, agent.episodes_trained)
              /\ tr' = [tr EXCEPT !.pc = "exited"]
         ELSE /\ UNCHANGED <<fs, snap>>
              /\ tr' = [tr EXCEPT !.pc = "crashed", !.error = "OSError"]
    /\ UNCHANGED <<env, envPc, call, agent, ret, ops>>

\* the training runs explored: <<policy class, steps per episode (the
\* environment's iteration), episodes, max_scaling_retries, the signal handlers
\* installed when train() is called, episodes_trained of the checkpoint resumed
\* from (0: a run that does not resume)>>
TrainRuns ==
    { <<"Q", 2, 1, 1, "default", 0>>, <<"QFuzzyHybrid", 2, 1, 1, "default", 0>>,
      <<"Q", 1, 2, 1, "default", 0>>, <<"QFuzzyHybrid", 1, 2, 1, "default", 0>>,
      <<"Q", 1, 0, 1, "default", 0>>, <<"Q", 1, 1, 1025, "default", 0>>,
      <<"Q", 1, 2, 1, "caller", 3>> }

InitTrain ==
    /\ \E run \in TrainRuns :
          /\ agent = IF run[6] = 0 THEN MakePolicy(run[1], TrainArgs)
                     ELSE Resumed(MakePolicy(run[1], TrainArgs),
                                  ModelData(AfterUpdate(MakePolicy(run[1], TrainArgs), NoObs, 0, One, NoObs), run[6]),
                                  Rat(9, 10))
          /\ env = MakeEnv(<<1, 4, run[2], run[4]>>, DefaultWeights)
          /\ tr = [NewTrainer(run[3]) EXCEPT !.prior = run[5], !.handlers = run[5]]
    /\ envPc = "idle"
    /\ call = NoCall
    /\ fs = <<>>
    /\ snap = <<>>
    /\ ret = Ret("init", TRUE)
    /\ ops = 0

NextTrain ==
    \/ TrainBegins
    \/ TrainInstallHandlers
    \/ TrainEpisodeBegins
    \/ TrainResetReturns
    \/ TrainGetAction
    \/ TrainStepCall
    \/ TrainStepReturns
    \/ TrainUpdate
    \/ TrainEpisodeEnds
    \/ TrainFinally
    \/ TrainRaises
    \/ TrainSignal
    \/ MainFinalSave
    \/ (tr.pc \in {"reset", "stepping"} /\ EnvInternal)

SpecTrain == InitTrain /\ [][NextTrain]_vars

-----------------------------------------------------------------------------
(* func.py: train_agent and _run_training_episode. The episode is the loop of
   Trainer.train statement for statement (add_episode_count, reset, get_action,
   step, update_q_table, "if terminated: break"), so its actions are shared;
   what differs is modelled here. No signal handler is installed. *)

\* train_agent up to the loop over the episodes: total_reward_init = 0
FuncBegins ==
    /\ tr.pc = "new"
    /\ tr' = [tr EXCEPT !.has_best = TRUE, !.total_best = Zero, !.ep = 0,
                        !.pc = IF tr.episodes > 0 THEN "episode" ELSE "done"]
    /\ UNCHANGED <<env, envPc, call, agent, fs, ret, snap, ops>>

\* update_q_table, total_reward += reward, and in the last step of the episode
\* "agent.epsilon = max(agent.epsilon_min, agent.epsilon * agent.epsilon_decay)"
FuncUpdate ==
    /\ tr.pc = "update"
    /\ \E updated \in {AfterUpdate(agent, tr.obs, tr.act, tr.rew, tr.nxt)} :
         agent' = IF tr.term THEN [updated EXCEPT !.epsilon = PyMax(updated.epsilon_min, RMul(updated.epsilon, updated.epsilon_decay))]
                  ELSE updated
    /\ tr' = [tr EXCEPT !.total = RAdd(@, tr.rew), !.obs = ObservationAfterKey(agent, tr.nxt),
                        !.nxt = ObservationAfterKey(agent, tr.nxt),
                        !.n_upd = @ + 1, !.pc = LoopPc("update", tr.term)]
    /\ UNCHANGED <<env, envPc, call, fs, snap, ret, ops>>

\* "if total_reward > total_reward_init": save_model(checkpoint_path, episode + 1),
\* then the next episode or the return of train_agent
FuncEpisodeEnds ==
    /\ tr.pc = "episode_end"
    /\ IF RGt(tr.total, tr.total_best)
       THEN SaveTo(<<"checkpoints", tr.ep, tr.total>>, tr.ep + 1)
       ELSE UNCHANGED <<fs, snap>>
    /\ tr' = [tr EXCEPT !.total_best = IF RGt(tr.total, tr.total_best) THEN tr.total ELSE @,
                        !.totals = Append(@, tr.total),
                        !.ep = @ + 1, !.pc = IF tr.ep + 1 < tr.episodes THEN "episode" ELSE "done"]
    /\ UNCHANGED <<env, envPc, call, agent, ret, ops>>

\* <<steps per episode, episodes>>; with max_scaling_retries = 1 no call of the
\* environment raises
FuncRuns == { <<2, 1>>, <<1, 2>>, <<1, 0>> }

InitFunc ==
    /\ \E run \in FuncRuns :
          /\ env = MakeEnv(<<1, 4, run[1], 1>>, DefaultWeights)
          /\ tr = NewTrainer(run[2])
    /\ agent = MakePolicy("Q", TrainArgs)
    /\ envPc = "idle"
    /\ call = NoCall
    /\ fs = <<>>
    /\ snap = <<>>
    /\ ret = Ret("init", TRUE)
    /\ ops = 0

NextFunc ==
    \/ FuncBegins
    \/ TrainEpisodeBegins
    \/ TrainResetReturns
    \/ TrainGetAction
    \/ TrainStepCall
    \/ TrainStepReturns
    \/ FuncUpdate
    \/ FuncEpisodeEnds
    \/ (tr.pc \in {"reset", "stepping"} /\ EnvInternal)

SpecFunc == InitFunc /\ [][NextFunc]_vars

-----------------------------------------------------------------------------
(* model/train.py and model/agent.py: the older train_agent with its
   QLearningAgent. env.reset() and env.step() are called and return exactly as
   in Trainer.train, so TrainResetReturns, TrainStepCall and TrainStepReturns
   are shared; the rest is modelled here. *)

LEGACY_N_ACTIONS == 101

\* agent = QLearningAgent(learning_rate=0.1, discount_factor=0.9, epsilon=1.0,
\* epsilon_min=0.1, epsilon_decay=0.95)
NewLegacyAgent ==
    [agent_type |-> "QLearningAgent", n_actions |-> LEGACY_N_ACTIONS, learning_rate |-> Rat(1, 10),
     discount_factor |-> Rat(9, 10), epsilon |-> One, epsilon_min |-> Rat(1, 10),
     epsilon_decay |-> Rat(19, 20), q_table |-> <<>>]

\* the environment train_agent constructs
LegacyEnv(min_replicas, max_replicas, iteration) == MakeEnv(<<min_replicas, max_replicas, iteration, 1>>, DefaultWeights)

\* the draws <<rand(), randint(1, n_actions)>> of one get_action
LegacyDraws == { <<Zero, 100>>, <<Rat(99, 100), 1>> }

\* QLearningAgent.update_q_table: the same update without the epsilon decay
LegacyAfterUpdate(a, obs, action, reward, next_obs) == [AfterUpdate(a, obs, action, reward, next_obs) EXCEPT !.epsilon = a.epsilon]

\* save_model: the states and the metadata; the q array is written as float32
\* and is not read back here
LegacyModelData(a) ==
    [states |-> DOMAIN a.q_table, n_actions |-> a.n_actions, learning_rate |-> a.learning_rate,
     discount_factor |-> a.discount_factor, epsilon |-> a.epsilon, epsilon_decay |-> a.epsilon_decay,
     epsilon_min |-> a.epsilon_min]

\* a.save_checkpoint(checkpoint_dir, episode, iteration=current_iteration, prefix):
\* current_iteration is never assigned after "current_iteration = 0"; the
\* timestamp of the file name is left out
LegacyCheckpoint(a, prefix, episode) ==
    /\ fs' = (<<prefix, episode, 0>> :> LegacyModelData(a)) @@ fs
    /\ snap' = (<<prefix, episode, 0>> :> a) @@ snap

\* sig_ret and sig_upd keep the counters n_ret and n_upd of the moment SIGINT arrived
NewLegacyRun(episodes, save_on_interrupt, checkpoint_interval) ==
    [pc |-> "new", episodes |-> episodes, ep |-> 0, current_episode |-> 0, obs |-> NoObs, act |-> 0,
     nxt |-> NoObs, rew |-> Zero, term |-> FALSE, total |-> Zero,
     save_on_interrupt |-> save_on_interrupt, checkpoint_interval |-> checkpoint_interval,
     stop_requested |-> FALSE, handlers |-> "default",
     n_get |-> 0, n_step |-> 0, n_ret |-> 0, n_upd |-> 0, error |-> "",
     signalled |-> FALSE, sig_ret |-> 0, sig_upd |-> 0]

\* train_agent up to the loop: "if save_on_interrupt: signal.signal(SIGINT, _handle_sigint)"
LegacyBegins ==
    /\ tr.pc = "new"
    /\ tr' = [tr EXCEPT !.handlers = IF tr.save_on_interrupt THEN "flag" ELSE "default",
                        !.pc = IF tr.episodes > 0 THEN "episode" ELSE "returned"]
    /\ UNCHANGED <<env, envPc, call, agent, fs, ret, snap, ops>>

\* current_episode = episode + 1 and the call of env.reset()
LegacyEpisodeBegins ==
    /\ tr.pc = "episode"
    /\ envPc = "idle"
    /\ ResetBegins
    /\ tr' = [tr EXCEPT !.current_episode = tr.ep + 1, !.pc = "reset"]
    /\ UNCHANGED <<agent, fs, ret, snap, ops>>

\* "except Exception": an "error" checkpoint, then the exception is raised again
LegacyErrorExit(error) ==
    /\ LegacyCheckpoint(agent, "error", tr.current_episode)
    /\ tr' = [tr EXCEPT !.error = error, !.pc = "raised"]
    /\ UNCHANGED agent

\* action = agent.get_action(observation)
LegacyGetAction ==
    /\ tr.pc = "act"
    /\ IF LegacyKeyRaises(tr.obs)
       THEN LegacyErrorExit("ValueError")
       ELSE /\ \E d \in LegacyDraws :
                 tr' = [tr EXCEPT !.act = ChosenAction(agent, d[1], d[2], GreedyAction(agent, tr.obs)),
                                  !.n_get = @ + 1, !.pc = "step"]
            /\ agent' = AfterGetAction(agent, tr.obs)
            /\ UNCHANGED <<fs, snap>>
    /\ UNCHANGED <<env, envPc, call, ret, ops>>

\* update_q_table, total_reward += reward, then "if stop_requested[flag]": an
\* "interrupt" checkpoint and return; "if terminated": epsilon decay and break
LegacyUpdate ==
    /\ tr.pc = "update"
    /\ IF LegacyKeyRaises(tr.nxt)
       THEN LegacyErrorExit("ValueError")
       ELSE \E updated \in {LegacyAfterUpdate(agent, tr.obs, tr.act, tr.rew, tr.nxt)} :
              /\ agent' = IF ~tr.stop_requested /\ tr.term
                           THEN [updated EXCEPT !.epsilon = PyMax(updated.epsilon_min, RMul(updated.epsilon, updated.epsilon_decay))]
                           ELSE updated
              /\ IF tr.stop_requested
                 THEN LegacyCheckpoint(updated, "interrupt", tr.current_episode)
                 ELSE UNCHANGED <<fs, snap>>
              /\ tr' = [tr EXCEPT !.total = RAdd(@, tr.rew), !.obs = tr.nxt, !.n_upd = @ + 1,
                                  !.pc = IF tr.stop_requested THEN "returned"
                                         ELSE IF tr.term THEN "episode_end" ELSE "act"]
    /\ UNCHANGED <<env, envPc, call, ret, ops>>

\* the end of an episode: the interval checkpoint, then the next episode or the return
LegacyEpisodeEnds ==
    /\ tr.pc = "episode_end"
    /\ IF tr.checkpoint_interval # 0 /\ tr.current_episode % tr.checkpoint_interval = 0
       THEN LegacyCheckpoint(agent, "qlearning", tr.current_episode)
       ELSE UNCHANGED <<fs, snap>>
    /\ tr' = [tr EXCEPT !.ep = @ + 1, !.pc = IF tr.ep + 1 < tr.episodes THEN "episode" ELSE "returned"]
    /\ UNCHANGED <<env, envPc, call, agent, ret, ops>>

\* SIGINT while the loop runs. With _handle_sigint installed the handler only
\* sets stop_requested and the interrupted call goes on. Without it Python
\* raises KeyboardInterrupt where the main thread is; "except
\* KeyboardInterrupt" saves an "interrupt" checkpoint and does not raise again
LegacySigint ==
    /\ tr.pc \in {"episode", "reset", "act", "step", "stepping", "update", "episode_end"}
    /\ ~tr.signalled
    /\ IF tr.handlers = "flag"
       THEN /\ tr' = [tr EXCEPT !.stop_requested = TRUE, !.signalled = TRUE, !.sig_ret = tr.n_ret, !.sig_upd = tr.n_upd]
            /\ UNCHANGED <<envPc, call, fs, snap>>
       ELSE /\ LegacyCheckpoint(agent, "interrupt", tr.current_episode)
            /\ tr' = [tr EXCEPT !.signalled = TRUE, !.sig_ret = tr.n_ret, !.sig_upd = tr.n_upd,
                                !.error = "KeyboardInterrupt", !.pc = "returned"]
            /\ envPc' = IF envPc = "idle" THEN "idle" ELSE "raised"
            /\ call' = IF envPc = "idle" THEN call ELSE [call EXCEPT !.raised = "KeyboardInterrupt"]
    /\ UNCHANGED <<env, agent, ret, ops>>

\* atexit: _final_save writes a "final" checkpoint; a failure is logged
LegacyExit ==
    /\ tr.pc \in {"returned", "raised"}
    /\ \E saved \in BOOLEAN :
         IF saved THEN LegacyCheckpoint(agent, "final", tr.current_episode) ELSE UNCHANGED <<fs, snap>>
    /\ tr' = [tr EXCEPT !.pc = "exited"]
    /\ UNCHANGED <<env, envPc, call, agent, ret, ops>>

\* <<iteration, episodes, save_on_interrupt, checkpoint_interval>>
LegacyRuns == { <<2, 1, TRUE, 5>>, <<1, 2, TRUE, 1>>, <<1, 1, FALSE, 5>>, <<1, 0, TRUE, 5>> }

InitLegacy ==
    /\ \E run \in LegacyRuns :
          /\ env = LegacyEnv(1, 4, run[1])
          /\ tr = NewLegacyRun(run[2], run[3], run[4])
    /\ agent = NewLegacyAgent
    /\ envPc = "idle"
    /\ call = NoCall
    /\ fs = <<>>
    /\ snap = <<>>
    /\ ret = Ret("init", TRUE)
    /\ ops = 0

NextLegacy ==
    \/ LegacyBegins
    \/ LegacyEpisodeBegins
    \/ TrainResetReturns
    \/ LegacyGetAction
    \/ TrainStepCall
    \/ TrainStepReturns
    \/ LegacyUpdate
    \/ LegacyEpisodeEnds
    \/ LegacySigint
    \/ LegacyExit
    \/ (tr.pc \in {"reset", "stepping"} /\ EnvInternal)

SpecLegacy == InitLegacy /\ [][NextLegacy]_vars

-----------------------------------------------------------------------------
(* Claims *)

\* C1: whatever the metrics (a NaN response time included), the replica count
\* within its bounds and the three weights, _calculate_reward returns a value
\* in [-1, 1]
C1_RewardBounded == envPc = "rewarded" => RLe(Flt(-1), call.reward) /\ RLe(call.reward, One)

\* a reward that the penalties would have pushed below -1, with a NaN response time
C1_Witness == envPc = "rewarded" /\ IsNaN(env.response_time) /\ env.cost_weight = Flt(5) /\ call.reward = Flt(-1)

\* C2: with max_scaling_retries = N and an actuator that fails on every call,
\* one call of _scale makes exactly N attempts and then returns without raising
C2_ExactlyNAttempts ==
    (envPc \in {"wait_ready", "raised"} /\ ~call.succeeded) => (envPc = "wait_ready" /\ call.tries = env.max_scaling_retries)

\* C3: once reset() or step() has set it, replica_state is an integer between
\* min_replicas and max_replicas
C3_ReplicaWithinBounds == env.has_replica_state => env.replica_state \in env.min_replicas..env.max_replicas

\* a step whose action maps to a value strictly between the bounds, by rounding
C3_Witness == envPc = "idle" /\ call.op = "step" /\ call.action = 50 /\ env.max_replicas = 4 /\ env.replica_state = 3

\* C4: after reset() with initial_iteration = K, each step() returns, lowers
\* the counter by one and reports terminated on the K-th step and not before;
\* reset() puts the counter back to K
C4_Countdown ==
    /\ (call.op = "step" /\ call.in_episode /\ call.steps <= env.initial_iteration) =>
          /\ envPc # "raised"
          /\ envPc = "idle" =>
                /\ env.iteration = call.iteration0 - 1
                /\ env.iteration = env.initial_iteration - call.steps
                /\ call.terminated = (call.steps = env.initial_iteration)
    /\ (call.op = "reset" /\ envPc = "idle") => (env.iteration = env.initial_iteration /\ call.steps = 0)

\* the third and last step of an episode of three
C4_Witness == envPc = "idle" /\ call.op = "step" /\ call.terminated /\ call.steps = 3 /\ env.initial_iteration = 3

\* C5: in the training loop the calls come strictly in the order get_action(N),
\* step(N), update_q_table(N), get_action(N+1): step N has returned and update
\* N is done before the next action is asked for, and no environment call is
\* in progress while the policy is asked or updated; a step that has not
\* returned is in progress or was cut off by an exception
C5_LoopOrder ==
    /\ tr.n_upd <= tr.n_ret /\ tr.n_ret <= tr.n_step /\ tr.n_step <= tr.n_get /\ tr.n_get <= tr.n_upd + 1
    /\ tr.pc \in {"act", "step", "update"} => envPc = "idle"
    /\ tr.pc = "stepping" => tr.n_step = tr.n_ret + 1
    /\ tr.n_step > tr.n_ret => tr.pc \in {"stepping", "raised"}

\* the second action of an episode has been asked for, after one update
C5_Witness == tr.pc = "step" /\ tr.ep = 0 /\ tr.n_get = 2 /\ tr.n_upd = 1 /\ DOMAIN agent.q_table # {}

\* C6 as stated: on one policy instance, no operation (get_action,
\* update_q_table, save_model, load_model) ever removes a state key.
C6_KeysNeverRemoved == [][ret'.op # "init" => DOMAIN agent.q_table \subseteq DOMAIN agent'.q_table]_vars

\* C6 amended: get_action, update_q_table, add_episode_count and save_model
\* never remove a state key; load_model replaces the table by the file's.
C6_KeysGrowExceptOnLoad == [][ret'.op \notin {"init", "load_model"} => DOMAIN agent.q_table \subseteq DOMAIN agent'.q_table]_vars

\* a get_action that added a key to a table that already held one
C6_Witness == ret.op = "get_action" /\ ret.fresh /\ Cardinality(DOMAIN agent.q_table) >= 2

\* the value of Q[k][b] before an update, an absent entry reading as zero
ValueBefore(k, b) == IF k \in DOMAIN agent.q_table THEN agent.q_table[k][b] ELSE Zero

\* the largest value of Q[k] before an update
MaxBefore(k) == CHOOSE m \in {ValueBefore(k, b) : b \in 0..(agent.n_actions - 1)} : \A b \in 0..(agent.n_actions - 1) : RLe(ValueBefore(k, b), m)

\* C7: update_q_table(obs, a, r, next_obs) sets Q[s][a] to
\* Q[s][a] + learning_rate * (r + discount_factor * max(Q[s']) - Q[s][a]),
\* the maximum read before the write, and leaves every other value as it was.
C7_TDUpdate ==
    [][ret'.op = "update_q_table" =>
         \A s \in {get_state_key(agent, ret'.obs)} : \A s2 \in {get_state_key(agent, ret'.next_obs)} :
         \A a \in {ret'.action} : \A old \in {ValueBefore(s, a)} : \A best_next \in {MaxBefore(s2)} :
             /\ DOMAIN agent'.q_table = DOMAIN agent.q_table \cup {s, s2}
             /\ agent'.q_table[s][a] = RAdd(old, RMul(agent.learning_rate, RSub(RAdd(ret'.reward, RMul(agent.discount_factor, best_next)), old)))
             /\ \A k \in DOMAIN agent'.q_table : \A b \in 0..(agent.n_actions - 1) :
                    (k # s \/ b # a) => agent'.q_table[k][b] = ValueBefore(k, b)]_vars

\* an update of the fuzzy-keyed policy whose old value and whose next-state
\* maximum were both non-zero
C7_Witness ==
    /\ ret.op = "update_q_table"
    /\ agent.agent_type = "QFuzzyHybrid"
    /\ agent.q_table[get_state_key(agent, ret.obs)][ret.action] \notin {Zero, One, Rat(1, 2), Rat(-1, 2), Rat(-1, 4)}

\* C8: after save_model then load_model, the loading policy holds the Q-table
\* and the hyperparameters the saving policy had when it saved.
C8_RoundTrip ==
    (ret.op = "load_model" /\ ret.ok) =>
        LET saved == snap[ret.path]
        IN  /\ agent.q_table = saved.q_table
            /\ agent.learning_rate = saved.learning_rate
            /\ agent.discount_factor = saved.discount_factor
            /\ agent.epsilon = saved.epsilon
            /\ agent.epsilon_min = saved.epsilon_min
            /\ agent.epsilon_decay = saved.epsilon_decay
            /\ agent.n_actions = saved.n_actions

\* a load of a table of several states, one keyed from a not-a-number
\* response_time, into a policy whose table and epsilon differed
C8_Witness ==
    /\ ret.op = "load_model" /\ ret.ok /\ ret.fresh
    /\ Cardinality(DOMAIN agent.q_table) >= 2
    /\ get_state_key(agent, ObsNaN) \in DOMAIN agent.q_table

\* C9: after save_model then load_model, episodes_trained and created_at are
\* those the saving policy held, however save_model was called.
C9_CountersRoundTrip ==
    (ret.op = "load_model" /\ ret.ok) =>
        /\ agent.episodes_trained = snap[ret.path].episodes_trained
        /\ agent.created_at = snap[ret.path].created_at

\* C10: with epsilon = 0, two runs of get_action on the same table and
\* observation return the same action, whatever they draw.
C10_GreedyDeterministic == (ret.op = "get_action" /\ agent.epsilon = Zero) => ret.action = ret.action2

\* a greedy choice of the fuzzy-keyed policy on a table that has been updated
C10_Witness == ret.op = "get_action" /\ agent.epsilon = Zero /\ agent.agent_type = "QFuzzyHybrid" /\ ret.action # 0

\* C12: an exception other than an interrupt raised by get_action, step or
\* update_q_table during training has left an "error" checkpoint of the agent
\* behind by the time it leaves the training function (here: raised by step)
C12_ErrorCheckpointSaved ==
    (tr.pc = "raised" /\ tr.n_step > tr.n_ret /\ tr.error \notin {"", "KeyboardInterrupt", "SystemExit"}) => \E path \in DOMAIN fs : path[1] = "error"

\* C14: a reset() or step() in which the actuator, the readiness query or the
\* metrics query has failed never ends by raising to its caller
C14_NothingPropagates == (call.op \in {"reset", "step"} /\ call.tries > 0) => envPc # "raised"

\* C19: when training has ended normally the final save never takes the
\* process down: a failed save is logged and the process still exits normally
C19_FinalSaveNeverRaises == tr.pc # "crashed"

\* the reference formula of the reward: the cost penalty is weighted by a
\* cost_factor of 0.5 (response time over the SLA, replica_ratio > 0.6),
\* 1.5 (response time over the SLA, replica_ratio < 0.3) or 1.0
ReferenceCostFactor(e) ==
    LET resp_pct == RMul(RDiv(e.response_time, Flt(MAX_RESPONSE_TIME)), Flt(100))
        replica_ratio == Rat(e.replica_state - e.min_replicas, e.range_replicas)
    IN  IF RGt(resp_pct, Flt(100)) /\ RGt(replica_ratio, Rat(6, 10)) THEN Rat(1, 2)
        ELSE IF RGt(resp_pct, Flt(100)) /\ RLt(replica_ratio, Rat(3, 10)) THEN Rat(3, 2)
        ELSE One

ReferenceReward(e) ==
    LET resp_pct == RMul(RDiv(e.response_time, Flt(MAX_RESPONSE_TIME)), Flt(100))
        resp_pen == PyMin(e.response_time_weight, PyMax(Zero, RDiv(RSub(resp_pct, Flt(100)), Flt(100))))
        cpu_mem_pen == RMul(e.cpu_memory_weight, RAdd(UsagePenalty(e.cpu_usage, MIN_CPU, MAX_CPU), UsagePenalty(e.memory_usage, MIN_MEMORY, MAX_MEMORY)))
        cost_pen == RMul(RMul(e.cost_weight, ReferenceCostFactor(e)), Rat(e.replica_state - e.min_replicas, e.range_replicas))
    IN  Clamp(RSub(RSub(RSub(One, resp_pen), cpu_mem_pen), cost_pen))

\* C15: the reward _calculate_reward returns is the reference reward, whose
\* cost penalty is cost_weight * cost_factor * replica_ratio, for every input
C15_RewardMatchesReference == envPc = "rewarded" => call.reward = ReferenceReward(env)

\* C18: load_model on a path with no artifact raises a not-found error and
\* leaves the Q-table, the hyperparameters and episodes_trained as they were
C18_MissingLoadLeavesPolicy ==
    [][(ops' = ops + 1 /\ ret'.op = "load_model" /\ ~ret'.ok) => (ret'.error = "FileNotFoundError" /\ agent' = agent)]_vars

C18_Witness == ret.op = "load_model" /\ ~ret.ok /\ ret.error = "FileNotFoundError" /\ agent.q_table # <<>> /\ agent.episodes_trained > 0

ReferenceTarget(min, max, action) ==
    LET rounded == PyRound(RAdd(Flt(min), RMul(Rat(action, ACTION_SPACE - 1), Flt(max - min))))
    IN  IF rounded < min THEN min ELSE IF rounded > max THEN max ELSE rounded

\* C17: step(action) sets the target replica count to the clamped, rounded
\* linear map of the action onto min_replicas..max_replicas: action 0 yields
\* min_replicas, action 99 yields max_replicas, and a larger action never
\* yields a smaller target
C17_ActionMapping ==
    /\ [](call.op = "step" =>
            /\ env.replica_state = ReferenceTarget(env.min_replicas, env.max_replicas, call.action)
            /\ call.action = 0 => env.replica_state = env.min_replicas
            /\ call.action = ACTION_SPACE - 1 => env.replica_state = env.max_replicas)
    /\ [][(call.op = "step" /\ call'.op = "step" /\ call'.action >= call.action) => env'.replica_state >= env.replica_state]_vars

C17_Witness == call.op = "step" /\ env.min_replicas = 1 /\ env.max_replicas = 10 /\ call.action = 49 /\ env.replica_state = 5

\* C16: with epsilon = 0 and an all-zero Q-vector the fuzzy-hybrid get_action
\* returns the index nearest the fuzzy centre (influence + 1) / 2 * 99 of the
\* observation: for an influence that is not negative the centre is at least
\* 49.5, so the action is at least 49
C16_GreedyFollowsFuzzyCentre ==
    (/\ ret.op = "get_action" /\ agent.agent_type = "QFuzzyHybrid" /\ agent.epsilon = Zero
     /\ ~IsNaN(ret.obs.response_time)
     /\ agent.q_table[get_state_key(agent, ret.obs)] = Zeros(agent.n_actions)
     /\ InfluenceSign(ret.obs) >= 0)
        => ret.action >= 49

\* the episodes of the run that have ended with a best-model checkpoint saved
SavedBest(i) == \E path \in DOMAIN fs : path[1] = "checkpoints" /\ path[2] = i - 1

\* C13: an episode saves a best-model checkpoint exactly when its total return
\* is strictly greater than that of every earlier episode of the run; the
\* first episode always saves
C13_SavesOnStrictImprovement ==
    \A i \in 1..Len(tr.totals) : SavedBest(i) <=> (\A j \in 1..(i - 1) : RGt(tr.totals[i], tr.totals[j]))

\* C11: once the interrupt signal has arrived during training with the
\* interrupt handler installed, no environment step returns and no Q-table
\* update is made any more (the checkpoint is saved at once, the in-flight step
\* is not finished), and the training function does not return normally
C11_CheckpointThenStop ==
    (tr.signalled /\ tr.handlers = "flag") => (tr.n_ret = tr.sig_ret /\ tr.n_upd = tr.sig_upd /\ tr.pc # "returned")

\* the moves of a call between the external operations: idle or raised ->
\* scale -> wait_ready -> get_metrics -> idle, and the AttributeError of a
\* step() before the first reset()
CallOrder ==
    { <<"idle", "scale">>, <<"raised", "scale">>, <<"idle", "raised">>,
      <<"scale", "wait_ready">>, <<"wait_ready", "get_metrics">>, <<"get_metrics", "idle">> }

\* C21: within every reset() and step() the external operations run in the
\* order scale -> await readiness -> sample metrics, each after the previous
\* one returned; the metrics change only when they are sampled, the reward is
\* computed from the sampled metrics and the iteration is decremented only
\* then, and the environment is idle when the call returns
C21_FixedOrder ==
    [][/\ envPc' # envPc => <<envPc, envPc'>> \in CallOrder
       /\ <<env'.cpu_usage, env'.memory_usage, env'.response_time, env'.replica>> # <<env.cpu_usage, env.memory_usage, env.response_time, env.replica>>
             => (envPc = "get_metrics" /\ envPc' = "idle")
       /\ env'.iteration < env.iteration => (envPc = "get_metrics" /\ envPc' = "idle" /\ call.op = "step")
       /\ (envPc = "get_metrics" /\ envPc' = "idle" /\ call.op = "step")
             => (env'.iteration = env.iteration - 1 /\ call'.reward = CalculateReward(env'))]_vars

C21_Witness ==
    /\ envPc = "idle" /\ call.op = "step" /\ call.steps = 2
    /\ env.iteration = call.iteration0 - 1
    /\ env.response_time = Flt(150)
    /\ call.reward = CalculateReward(env)

\* C22: wait_for_pods_ready answers ready only from a poll that read a ready
\* count equal to the desired count and greater than 0; at the timeout it
\* answers not ready with the count read last, and get_metrics is then asked
\* for that count
C22_ReadyOnlyWhenAllReady ==
    /\ [](envPc = "get_metrics" =>
            /\ call.ready => (call.last_read = env.replica_state /\ env.replica_state > 0 /\ call.polls > 0)
            /\ call.ready_replicas = call.last_read)
    /\ [][(envPc = "get_metrics" /\ envPc' = "idle") => env'.replica \in {call.ready_replicas, 0}]_vars

C22_Witness == envPc = "get_metrics" /\ ~call.ready /\ call.polls = 2 /\ call.ready_replicas = 1 /\ env.replica_state = 3

\* C23: get_metrics sleeps the wait_time warm-up in a step exactly when the
\* step raised replica_state above the value held before it and wait_time > 0;
\* a step that keeps or lowers the count does not wait, and no reset() does
C23_WarmUpOnlyOnIncrease ==
    (envPc = "idle" /\ call.op \in {"reset", "step"}) =>
        call.warmup = IF call.op = "step" /\ env.replica_state > env.replica_state_old /\ env.wait_time > 0
                      THEN env.wait_time ELSE 0

C23_Witness ==
    /\ envPc = "idle" /\ call.op = "step" /\ call.steps = 2
    /\ env.replica_state > env.replica_state_old /\ env.wait_time = WAIT_TIME /\ call.warmup = WAIT_TIME

\* the all-zero vector of length n_actions
C24_ZeroVector == [i \in 0..(agent.n_actions - 1) |-> Zero]

\* C24: get_action adds exactly the absent key of its observation with an
\* all-zero vector of length n_actions and changes no other entry, and leaves
\* the whole table unchanged when the key is present; update_q_table creates
\* all-zero vectors for an absent s and an absent s' (so every entry other than
\* Q[s][action] is what it was, or zero where it was absent)
C24_LazyEntries ==
    [][/\ ret'.op = "get_action" =>
            \A k \in {get_state_key(agent, ret'.obs)} :
               IF k \in DOMAIN agent.q_table
               THEN agent'.q_table = agent.q_table
               ELSE /\ DOMAIN agent'.q_table = DOMAIN agent.q_table \cup {k}
                    /\ agent'.q_table[k] = C24_ZeroVector
                    /\ \A j \in DOMAIN agent.q_table : agent'.q_table[j] = agent.q_table[j]
       /\ ret'.op = "update_q_table" =>
            \A s \in {get_state_key(agent, ret'.obs)} : \A s2 \in {get_state_key(agent, ret'.next_obs)} :
               /\ DOMAIN agent'.q_table = DOMAIN agent.q_table \cup {s, s2}
               /\ \A j \in DOMAIN agent'.q_table : \A b \in 0..(agent.n_actions - 1) :
                      (j # s \/ b # ret'.action) =>
                          agent'.q_table[j][b] = IF j \in DOMAIN agent.q_table THEN agent.q_table[j][b] ELSE Zero
               /\ \A j \in DOMAIN agent'.q_table : DOMAIN agent'.q_table[j] = 0..(agent.n_actions - 1)]_vars

\* a get_action on a key that an earlier update had given a non-zero value
C24_Witness ==
    /\ ret.op = "get_action" /\ ~ret.fresh
    /\ \E b \in 0..(agent.n_actions - 1) : agent.q_table[get_state_key(agent, ret.obs)][b] # Zero
    /\ Cardinality(DOMAIN agent.q_table) = 2

\* C25: update_q_table sets epsilon to max(epsilon_min, epsilon * epsilon_decay)
\* when epsilon > epsilon_min and leaves it alone otherwise, get_action leaves
\* it alone; so over get_action and update_q_table calls epsilon never rises
\* and never falls below epsilon_min
C25_EpsilonDecays ==
    /\ [](RLe(agent.epsilon_min, agent.epsilon) /\ RLe(Zero, agent.epsilon_decay) /\ RLe(agent.epsilon_decay, One))
    /\ [][/\ ret'.op = "update_q_table" =>
                agent'.epsilon = IF RLt(agent.epsilon_min, agent.epsilon)
                                 THEN (IF RLt(RMul(agent.epsilon, agent.epsilon_decay), agent.epsilon_min)
                                       THEN agent.epsilon_min ELSE RMul(agent.epsilon, agent.epsilon_decay))
                                 ELSE agent.epsilon
          /\ ret'.op = "get_action" => agent'.epsilon = agent.epsilon
          /\ ret'.op \in {"get_action", "update_q_table"} =>
                (RLe(agent'.epsilon, agent.epsilon) /\ RLe(agent'.epsilon_min, agent'.epsilon))]_vars

\* the third update of a training policy: 1/2, 1/4, 1/8, then the floor 1/10
\* instead of 1/16
C25_Witness ==
    /\ ret.op = "update_q_table" /\ ops = 3
    /\ agent.epsilon = agent.epsilon_min /\ agent.epsilon = Rat(1, 10)

C27_MembershipSum == RDiv(ret.memberships.strengths, ret.memberships.total)

\* C27: the scale_up, scale_down and no_change memberships apply_rules returns
\* for an observation with every metric in 0..100 are each in [0, 1] and their
\* sum is within 1e-6 of 1
C27_MembershipsSumToOne ==
    ret.op = "apply_rules" =>
        /\ \A m \in {ret.memberships.scale_up, ret.memberships.scale_down, ret.memberships.no_change} :
               RLe(Zero, m) /\ RLe(m, One)
        /\ RLe(RSub(One, C27_MembershipSum), RULES_EPSILON)
        /\ RLe(C27_MembershipSum, RAdd(One, RULES_EPSILON))

\* the observation no rule fires on: the three memberships are 0 and sum to 0
C27_NoRuleFires ==
    /\ ret.op = "apply_rules"
    /\ ret.obs = Obs(Zero, Zero, Zero, 0)
    /\ ret.memberships.scale_up = Zero /\ ret.memberships.scale_down = Zero /\ ret.memberships.no_change = Zero

\* C28: a single SIGINT delivered while Trainer.train runs causes exactly one
\* save_model call for the interruption before KeyboardInterrupt leaves train()
C28_InterruptedSavedOnce ==
    (tr.pc = "raised" /\ tr.error = "KeyboardInterrupt") => tr.n_isave = 1

\* C29: every checkpoint the Trainer writes, best-episode or interrupted,
\* records the episodes_trained the saving policy held at that moment
C29_CheckpointCountsEpisodes ==
    \A path \in DOMAIN fs :
        path[1] \in {"checkpoints", "interrupted"} => fs[path].episodes_trained = snap[path].episodes_trained

====
